---- MODULE Spec2Model ----
(***************************************************************************)
(* A model of the Data container of src/Data/_internal: the content        *)
(* mapping, the Field / ComputedField objects it holds, the behavioural    *)
(* flags, the field registry and the scoped-mutation state, with one       *)
(* action per public operation.                                            *)
(*                                                                         *)
(* Python objects with identity (Field, ComputedField, container           *)
(* instances) live in heaps indexed by ids; plain values are records of a  *)
(* uniform shape so that values of different Python types compare unequal. *)
(***************************************************************************)
EXTENDS Integers, Sequences, FiniteSets, TLC

(***************************************************************************)
(* Bounds of the exploration.                                              *)
(***************************************************************************)
MaxNew == 2
MaxOps == 3
MaxDepth == 2

InstIds == {1, 2}

(***************************************************************************)
(* Plain Python values.  A str is the sequence of its characters.          *)
(***************************************************************************)
NoneV == [t |-> "none", n |-> 0, s |-> <<>>]
IntV(n) == [t |-> "int", n |-> n, s |-> <<>>]
StrV(s) == [t |-> "str", n |-> 0, s |-> s]
ObjV(name) == [t |-> "obj", n |-> 0, s |-> <<name>>]

\* the dict {flag: b}, the only shape of configuration mapping that is modelled
ConfigV(flag, b) == [t |-> "dict", n |-> IF b THEN 1 ELSE 0, s |-> <<flag>>]

Digits == <<"0", "1", "2", "3", "4", "5", "6", "7", "8", "9">>

DigitChars == {Digits[j] : j \in 1..10}

DigitVal(c) == (CHOOSE j \in 1..10 : Digits[j] = c) - 1

IsDigitStr(s) == Len(s) > 0 /\ \A j \in 1..Len(s) : s[j] \in DigitChars

RECURSIVE ParseInt(_)
ParseInt(s) ==
    IF Len(s) = 0 THEN 0
    ELSE 10 * ParseInt(SubSeq(s, 1, Len(s) - 1)) + DigitVal(s[Len(s)])

RECURSIVE FormatInt(_)
FormatInt(n) ==
    IF n < 10 THEN <<Digits[n + 1]>>
    ELSE Append(FormatInt(n \div 10), Digits[(n % 10) + 1])

\* bool(v) of a plain value
Truthy(v) ==
    CASE v.t = "none" -> FALSE
      [] v.t = "int" -> v.n # 0
      [] v.t = "str" -> Len(v.s) > 0
      [] OTHER -> TRUE

\* Python's `a or b`
PyOr(a, b) == IF Truthy(a) THEN a ELSE b

(***************************************************************************)
(* Slots: what a content key (or a call argument) holds: nothing, a plain  *)
(* value, or a reference to a Field object.                                *)
(***************************************************************************)
Absent == [t |-> "absent", v |-> NoneV, f |-> 0]
Val(v) == [t |-> "val", v |-> v, f |-> 0]
Fld(f) == [t |-> "fld", v |-> NoneV, f |-> f]

(***************************************************************************)
(* Keys.  Members are the names Data itself defines that pass the filter   *)
(* of _Dataclass.__init__ (properties and classmethods are not callable).  *)
(***************************************************************************)
Members == {"meta", "data", "fields", "from_dict", "from_json", "from_env", "from_file"}

DeclKeys == {"age", "name", "note", "slot", "total", "year", "month", "day", "year_month_day"}

Keys == Members \cup DeclKeys \cup {"extra", "__meta_config__"}

\* iteration order of the dicts built by _Dataclass.__init__
KeySeq ==
    <<"meta", "data", "fields", "from_dict", "from_json", "from_env", "from_file",
      "age", "name", "note", "slot", "total", "year", "month", "day",
      "year_month_day", "extra", "__meta_config__">>

\* the annotations Data declares for its own attributes
DataAnnotated ==
    {"annotations", "content", "_meta_cache", "__frozen__", "__include_methods__",
     "__auto_cast__", "__strict_typing__", "__meta_config__", "__fields__"}

AnnKeys == Keys \cup DataAnnotated

(***************************************************************************)
(* Field objects.                                                          *)
(***************************************************************************)
FreeF ==
    [kind |-> "free", default |-> NoneV, value |-> NoneV, required |-> FALSE,
     validator |-> "always", classfield |-> FALSE, data |-> 0,
     method |-> "none", recursion |-> FALSE]

\* Field.__init__ (default_factory not used by the modelled classes)
NewField(default, validator, required, classfield) ==
    [kind |-> "Field", default |-> default, value |-> NoneV, required |-> required,
     validator |-> validator, classfield |-> classfield, data |-> 0,
     method |-> "none", recursion |-> FALSE]

\* ComputedField.__init__: no default, required or validator attribute is set
NewComputed(method, classfield) ==
    [kind |-> "ComputedField", default |-> NoneV, value |-> NoneV, required |-> FALSE,
     validator |-> "always", classfield |-> classfield, data |-> 0,
     method |-> method, recursion |-> FALSE]

\* Field.copy: a new Field with the same default, validator and required;
\* _value and classfield are not carried over
FieldCopy(fr) == NewField(fr.default, fr.validator, fr.required, FALSE)

\* the validator predicates used by the modelled fields
Validate(name, v) ==
    CASE name = "always" -> TRUE
      [] name = "is_int" -> v.t = "int"
      [] OTHER -> TRUE

(***************************************************************************)
(* Classes.  Data and FrozenData define __slots__ over bases without an    *)
(* instance __dict__; a class made by data_factory from a plain class has  *)
(* no __slots__ of its own, so its instances do have a __dict__.           *)
(*                                                                         *)
(*   @data_factory                  @data_factory(frozen=True)             *)
(*   class Rec:                     class Vault:                           *)
(*       age: int = 0                   age: int = 0                       *)
(*       name: str = "x"                slot: int = field(default=1)       *)
(*       note = 0                                                          *)
(*       slot: int = field(default=1)                                      *)
(*       total = computed_field(lambda self: self["total"], classfield=True)*)
(*                                                                         *)
(*   Date is the class of src/test.py; Req is Date without its             *)
(*   ComputedField.                                                        *)
(*                                                                         *)
(* A plain subclass of Data has no __slots__ either:                       *)
(*                                                                         *)
(*   class Sub(Data): pass          class FSub(Data, frozen=True): pass    *)
(***************************************************************************)
SlotClasses == {"Data", "FrozenData"}

FactoryClasses == {"Rec", "Vault", "Date", "Req"}

PlainClasses == {"Sub", "FSub"}

Classes == SlotClasses \cup FactoryClasses

\* whether instances of the class have a __dict__ (no __slots__ in the class body)
HasInstanceDict(cls) == cls \in FactoryClasses \cup PlainClasses

\* the keyword configuration DataMeta.__new__ stores on the class
ClassMetaFrozen(cls) == cls \in {"Vault", "FSub"}

\* ids of the Field objects created when the class bodies run
ClassFieldId(cls, k) ==
    CASE cls = "Rec" /\ k = "slot" -> 1
      [] cls = "Rec" /\ k = "total" -> 2
      [] cls = "Vault" /\ k = "slot" -> 3
      [] cls = "Date" /\ k = "day" -> 4
      [] cls = "Date" /\ k = "year_month_day" -> 5
      [] cls = "Req" /\ k = "day" -> 6
      [] OTHER -> 0

ClassFieldIds == 1..6

NewIds == 7..(6 + MaxNew)

FieldIds == ClassFieldIds \cup NewIds

\* the heap right after the class bodies have run
ClassHeap ==
    [f \in FieldIds |->
        CASE f = ClassFieldId("Rec", "slot") -> NewField(IntV(1), "always", FALSE, FALSE)
          [] f = ClassFieldId("Rec", "total") -> NewComputed("self_item", TRUE)
          [] f = ClassFieldId("Vault", "slot") -> NewField(IntV(1), "always", FALSE, FALSE)
          [] f = ClassFieldId("Date", "day") -> NewField(NoneV, "always", TRUE, FALSE)
          [] f = ClassFieldId("Date", "year_month_day") -> NewComputed("fmt", FALSE)
          [] f = ClassFieldId("Req", "day") -> NewField(NoneV, "always", TRUE, FALSE)
          [] OTHER -> FreeF]

\* the class attributes a data_factory class declares in its own body
OwnAttr(cls, k) ==
    CASE cls = "Rec" /\ k = "age" -> Val(IntV(0))
      [] cls = "Rec" /\ k = "name" -> Val(StrV(<<"x">>))
      [] cls = "Rec" /\ k = "note" -> Val(IntV(0))
      [] cls = "Rec" /\ k = "slot" -> Fld(ClassFieldId(cls, k))
      [] cls = "Rec" /\ k = "total" -> Fld(ClassFieldId(cls, k))
      [] cls = "Vault" /\ k = "age" -> Val(IntV(0))
      [] cls = "Vault" /\ k = "slot" -> Fld(ClassFieldId(cls, k))
      [] cls \in {"Date", "Req"} /\ k = "year" -> Val(IntV(2025))
      [] cls \in {"Date", "Req"} /\ k = "month" -> Val(IntV(10))
      [] cls = "Date" /\ k = "day" -> Fld(ClassFieldId(cls, k))
      [] cls = "Req" /\ k = "day" -> Fld(ClassFieldId(cls, k))
      [] cls = "Date" /\ k = "year_month_day" -> Fld(ClassFieldId(cls, k))
      [] OTHER -> Absent

\* the class attribute found by ordinary lookup along the MRO: the class's own
\* attribute, else the property / classmethod objects of Data
ClassAttr(cls, k) ==
    IF OwnAttr(cls, k).t # "absent" THEN OwnAttr(cls, k)
    ELSE IF k \in Members THEN Val(ObjV(k))
    ELSE Absent

\* merged __annotations__ of the MRO, base to derived
ClassAnnotations(cls) ==
    [k \in AnnKeys |->
        CASE k \in {"__frozen__", "__include_methods__", "__auto_cast__",
                    "__strict_typing__"} -> "bool"
          [] k \in DataAnnotated -> "dict"
          [] cls \in {"Rec", "Vault"} /\ k = "age" -> "int"
          [] cls = "Rec" /\ k = "name" -> "str"
          [] cls \in {"Rec", "Vault"} /\ k = "slot" -> "int"
          [] cls \in {"Date", "Req"} /\ k \in {"year", "month", "day"} -> "int"
          [] cls = "Date" /\ k = "year_month_day" -> "str"
          [] OTHER -> "none"]

NoAnnotations == [k \in AnnKeys |-> "none"]

EmptyContent == [k \in Keys |-> Absent]

(***************************************************************************)
(* Container instances.                                                    *)
(***************************************************************************)
NoInst ==
    [cls |-> "none", content |-> EmptyContent, annotations |-> NoAnnotations,
     frozen |-> FALSE, auto_cast |-> FALSE, strict_typing |-> FALSE,
     fields |-> EmptyContent, original |-> EmptyContent, aliased |-> FALSE,
     was_frozen |-> FALSE]

Live(insts, i) == insts[i].cls # "none"

\* Writing the content dict in place.  After a rollback __exit__ leaves content
\* and __original__ bound to the same dict, so the write shows in both.
WithContent(ins, c) ==
    IF ins.aliased THEN [ins EXCEPT !.content = c, !.original = c]
    ELSE [ins EXCEPT !.content = c]

(***************************************************************************)
(* Results of the modelled calls: the heap after the call, how it ended    *)
(* ("ok" or the exception raised), what it returned, and how many times a  *)
(* ComputedField function body was entered.                                *)
(***************************************************************************)
R(h, st, a, n) == [h |-> h, st |-> st, a |-> a, n |-> n]

\* str(x); the repr of an object without __str__ is one opaque token
PyStr(a) ==
    CASE a.t = "fld" -> <<"<Field>">>
      [] a.v.t = "int" -> FormatInt(a.v.n)
      [] a.v.t = "str" -> a.v.s
      [] a.v.t = "none" -> <<"N", "o", "n", "e">>
      [] OTHER -> <<"<object>">>

\* expected(value) in __setitem__: calling the annotated type on the value.
\* int() accepts an int or a string of digits (the only numeric strings modelled)
\* and raises otherwise; str() accepts anything.
Cast(type, a) ==
    CASE type = "int" /\ a.t = "val" /\ a.v.t = "int" -> [ok |-> TRUE, a |-> a]
      [] type = "int" /\ a.t = "val" /\ a.v.t = "str" /\ IsDigitStr(a.v.s) ->
            [ok |-> TRUE, a |-> Val(IntV(ParseInt(a.v.s)))]
      [] type = "str" -> [ok |-> TRUE, a |-> Val(StrV(PyStr(a)))]
      [] OTHER -> [ok |-> FALSE, a |-> a]

\* isinstance(value, annotation) for the plain annotations of the modelled classes
IsInstance(v, type) ==
    CASE type = "int" -> v.t = "int"
      [] type = "str" -> v.t = "str"
      \* Dict[str, Any]: a dict whose keys are str
      [] type = "dict" -> v.t = "dict"
      [] OTHER -> FALSE

\* The functions stored in the modelled ComputedFields, applied to the owner
\* (0 is None):
\*   self_item   lambda self: self["total"]
\*   const       lambda self: 1
\*   fmt         lambda self: f"{self.year} - {self.month} - {self.day}" (src/test.py)
\* inner is what reading self["total"] gives when that slot holds a ComputedField.
RunMethod(h, insts, m, owner, inner) ==
    CASE m = "const" -> R(h, "ok", Val(IntV(1)), 0)
      [] m = "self_item" ->
            IF owner = 0 THEN R(h, "TypeError", Val(NoneV), 0)
            ELSE LET a == insts[owner].content["total"]
                 IN IF a.t = "absent" THEN R(h, "KeyError", Val(NoneV), 0)
                    ELSE IF a.t = "val" THEN R(h, "ok", a, 0)
                    ELSE IF h[a.f].kind = "ComputedField" THEN inner
                    ELSE R(h, "ok", Val(PyOr(h[a.f].value, h[a.f].default)), 0)
      [] m = "fmt" ->
            IF owner = 0 THEN R(h, "AttributeError", Val(NoneV), 0)
            ELSE LET c == insts[owner].cls
                     part(k) == IF ClassAttr(c, k).t # "absent"
                                THEN PyStr(ClassAttr(c, k))
                                ELSE PyStr(insts[owner].content[k])
                 IN IF \E k \in {"year", "month", "day"} :
                          ClassAttr(c, k).t = "absent" /\ insts[owner].content[k].t = "absent"
                    THEN R(h, "AttributeError", Val(NoneV), 0)
                    ELSE R(h, "ok",
                           Val(StrV(part("year") \o <<" ", "-", " ">> \o part("month")
                                    \o <<" ", "-", " ">> \o part("day"))), 0)
      [] OTHER -> R(h, "TypeError", Val(NoneV), 0)

\* the ComputedField, if any, that the function of f reads through its owner
ReadsComputed(h, insts, f) ==
    /\ h[f].method = "self_item"
    /\ h[f].data # 0
    /\ insts[h[f].data].content["total"].t = "fld"
    /\ h[insts[h[f].data].content["total"].f].kind = "ComputedField"

\* lines 66-67 of ComputedField.value: the guard is cleared only when the
\* function returned; r is the outcome of the call of line 65
GuardedReturn(f, r) ==
    IF r.st = "ok"
    THEN R([r.h EXCEPT ![f].recursion = FALSE], "ok", r.a, r.n + 1)
    ELSE R(r.h, r.st, Val(NoneV), r.n + 1)

\* a getter that, finding the guard set, calls the function once more on a
\* constant instead of returning
ReentrantCall(h) == R(h, "ok", Val(IntV(1)), 1)

\* the branch of ComputedField.value taken while the guard is set: the getter
\* falls off its end and returns None without calling the function
ReentrantResult(h) == R(h, "ok", Val(NoneV), 0)

RECURSIVE EvalComputed(_, _, _)
\* ComputedField.value (getter): guarded call of the stored function on the owner
EvalComputed(h, insts, f) ==
    IF h[f].recursion THEN ReentrantResult(h)
    ELSE GuardedReturn(f,
            RunMethod([h EXCEPT ![f].recursion = TRUE], insts, h[f].method, h[f].data,
                      IF ReadsComputed(h, insts, f)
                      THEN EvalComputed([h EXCEPT ![f].recursion = TRUE], insts,
                                        insts[h[f].data].content["total"].f)
                      ELSE R(h, "ok", Val(NoneV), 0)))

\* Data._resolve_value
ResolveValue(h, insts, a) ==
    IF a.t = "fld"
    THEN IF h[a.f].kind = "ComputedField"
         THEN EvalComputed(h, insts, a.f)
         ELSE R(h, "ok", Val(PyOr(h[a.f].value, h[a.f].default)), 0)
    ELSE R(h, "ok", a, 0)

\* Data.__getitem__
GetItemOf(h, insts, i, k) ==
    IF insts[i].content[k].t = "absent" THEN R(h, "KeyError", Val(NoneV), 0)
    ELSE ResolveValue(h, insts, insts[i].content[k])

\* Data.__getattr__, reached only when ordinary lookup finds no class attribute:
\* an attribute the class declares is returned as the class holds it
GetAttrOf(h, insts, i, k) ==
    IF ClassAttr(insts[i].cls, k).t # "absent" THEN R(h, "ok", ClassAttr(insts[i].cls, k), 0)
    ELSE IF insts[i].content[k].t # "absent" THEN ResolveValue(h, insts, insts[i].content[k])
    ELSE R(h, "AttributeError", Val(NoneV), 0)

\* Data.get
GetOf(h, insts, i, k, default) ==
    ResolveValue(h, insts,
                 IF insts[i].content[k].t = "absent" THEN default ELSE insts[i].content[k])

C(h, st, ok) == [h |-> h, st |-> st, ok |-> ok]

\* Data.__check_type on a ComputedField, r being what field.value gave
CheckComputed(r, type) ==
    IF r.st # "ok" THEN C(r.h, r.st, FALSE)
    \* field.required: a ComputedField has no such attribute
    ELSE IF r.a.v.t = "none" THEN C(r.h, "AttributeError", FALSE)
    ELSE C(r.h, "ok", IsInstance(r.a.v, type))

\* Data.__check_type on a Field fr that is no ComputedField
CheckField(fr, type) ==
    IF fr.value.t = "none"
    THEN IF fr.required THEN FALSE ELSE IsInstance(fr.default, type)
    ELSE IsInstance(fr.value, type)

\* Data.__check_type for a plain (origin-less) annotation
CheckType(h, insts, a, type) ==
    IF a.t = "fld"
    THEN IF h[a.f].kind = "ComputedField"
         THEN CheckComputed(EvalComputed(h, insts, a.f), type)
         ELSE C(h, "ok", CheckField(h[a.f], type))
    ELSE C(h, "ok", IsInstance(a.v, type))

K(h, st, keys) == [h |-> h, st |-> st, keys |-> keys]

RECURSIVE IncorrectFrom(_, _, _, _, _)
RECURSIVE IncorrectStep(_, _, _, _, _)

\* the loop left at the first key that fails
IncorrectStepFirstOnly(idx, c, insts, i, acc) ==
    IF c.st # "ok" THEN K(c.h, c.st, {})
    ELSE IF c.ok THEN IncorrectFrom(idx + 1, c.h, insts, i, acc)
    ELSE K(c.h, "ok", acc \cup {KeySeq[idx]})

\* one round of the loop of Data.__get_incorrect_typing__, c being the outcome
\* of __check_type on the key at position idx
IncorrectStep(idx, c, insts, i, acc) ==
    IF c.st # "ok" THEN K(c.h, c.st, {})
    ELSE IncorrectFrom(idx + 1, c.h, insts, i, IF c.ok THEN acc ELSE acc \cup {KeySeq[idx]})

\* the loop of Data.__get_incorrect_typing__ from position idx of the annotations
IncorrectFrom(idx, h, insts, i, acc) ==
    IF idx > Len(KeySeq) THEN K(h, "ok", acc)
    ELSE IF insts[i].annotations[KeySeq[idx]] = "none"
            \/ insts[i].content[KeySeq[idx]].t = "absent"
    THEN IncorrectFrom(idx + 1, h, insts, i, acc)
    ELSE IncorrectStep(idx,
                       CheckType(h, insts, insts[i].content[KeySeq[idx]],
                                 insts[i].annotations[KeySeq[idx]]),
                       insts, i, acc)

HasAnnotations(ins) == \E k \in AnnKeys : ins.annotations[k] # "none"

\* Data.__get_incorrect_typing__
GetIncorrectTyping(h, insts, i) ==
    IF ~HasAnnotations(insts[i]) THEN K(h, "ok", {})
    ELSE IncorrectFrom(1, h, insts, i, {})

\* the registered fields that fail their validator or are required and unset
BadFields(h, ins) ==
    {k \in Keys :
        /\ ins.fields[k].t = "fld"
        /\ h[ins.fields[k].f].kind # "ComputedField"
        /\ LET fr == h[ins.fields[k].f]
           IN \/ ~Validate(fr.validator, PyOr(fr.value, fr.default))
              \/ (fr.required /\ ~Truthy(fr.value))}

\* lines 260-264 of Data.__raise_typing_error__, g being the outcome of the
\* annotation pass
RaiseWith(g, ins) ==
    IF g.st # "ok" THEN g
    ELSE K(g.h, IF g.keys \cup BadFields(g.h, ins) = {} THEN "ok" ELSE "TypeError",
           g.keys \cup BadFields(g.h, ins))

\* Data.__raise_typing_error__
RaiseTypingError(h, insts, i) ==
    IF ~HasAnnotations(insts[i]) THEN K(h, "ok", {})
    ELSE RaiseWith(IF insts[i].strict_typing THEN GetIncorrectTyping(h, insts, i)
                   ELSE K(h, "ok", {}),
                   insts[i])

(***************************************************************************)
(* Construction.                                                           *)
(***************************************************************************)
HasFree(h) == \E f \in NewIds : h[f].kind = "free"

LowestFree(h) ==
    CHOOSE f \in NewIds : h[f].kind = "free" /\ \A g \in NewIds : h[g].kind = "free" => f <= g

\* objects created by a call that raised are unreachable afterwards; what the
\* call did to objects that existed before it stays
Discard(h0, h1) == [f \in FieldIds |-> IF h0[f].kind = "free" THEN FreeF ELSE h1[f]]

RECURSIVE AdoptFrom(_, _, _, _, _)
\* the first loop of Data.__init__ (over the source mapping), from position idx.
\* "full" is the heap bound of the model, not an outcome of the code.
AdoptFrom(idx, h, value, self, acc) ==
    IF idx > Len(KeySeq) THEN [h |-> h, st |-> "ok", content |-> acc]
    ELSE LET k == KeySeq[idx]
             v == value[k]
         IN IF v.t # "fld" \/ h[v.f].classfield
            THEN AdoptFrom(idx + 1, h, value, self, [acc EXCEPT ![k] = v])
            ELSE IF h[v.f].kind = "ComputedField"
            \* ComputedField.copy calls ComputedField(self.method) without classfield
            THEN [h |-> h, st |-> "TypeError", content |-> acc]
            ELSE IF ~HasFree(h) THEN [h |-> h, st |-> "full", content |-> acc]
            ELSE LET n == LowestFree(h)
                 IN AdoptFrom(idx + 1,
                              [h EXCEPT ![n] = [FieldCopy(h[v.f]) EXCEPT !.data = self]],
                              value, self, [acc EXCEPT ![k] = Fld(n)])

RECURSIVE KeywordsFrom(_, _, _, _)
\* the second loop of Data.__init__ (over the keyword arguments, plain values)
KeywordsFrom(idx, h, kwargs, acc) ==
    IF idx > Len(KeySeq) THEN [h |-> h, content |-> acc]
    ELSE LET k == KeySeq[idx]
             v == kwargs[k]
         IN IF v.t = "absent" THEN KeywordsFrom(idx + 1, h, kwargs, acc)
            ELSE IF acc[k].t = "fld" /\ h[acc[k].f].kind # "ComputedField"
            THEN KeywordsFrom(idx + 1, [h EXCEPT ![acc[k].f].value = v.v], kwargs, acc)
            ELSE KeywordsFrom(idx + 1, h, kwargs, [acc EXCEPT ![k] = v])

\* the registry built at the end of Data.__init__
FieldsOfContent(c) == [k \in Keys |-> IF c[k].t = "fld" THEN c[k] ELSE Absent]

I(h, st, ins, keys) == [h |-> h, st |-> st, ins |-> ins, keys |-> keys]

\* how merged.update(instance_meta) of Data.meta ends: dict.update accepts a
\* mapping (or an empty iterable) and raises on anything else
MetaStatus(content) ==
    LET m == content["__meta_config__"]
    IN CASE m.t = "absent" -> "ok"
         [] m.t = "fld" -> "TypeError"
         [] m.v.t = "dict" -> "ok"
         [] m.v.t = "str" -> IF Len(m.v.s) = 0 THEN "ok" ELSE "ValueError"
         [] OTHER -> "TypeError"

\* self.meta.get(flag, False): the class-level configuration updated with the
\* content's "__meta_config__" entry.  Of the modelled classes only Vault and
\* FSub configure a flag as true, and that flag is frozen.
MetaGet(cls, content, flag) ==
    LET m == content["__meta_config__"]
    IN IF m.t = "val" /\ m.v.t = "dict" /\ m.v.s = <<flag>> THEN m.v.n = 1
       ELSE flag = "frozen" /\ ClassMetaFrozen(cls)

\* lines 61-77 of Data.__init__, w being the outcome of the two loops.  The
\* attribute _meta_cache is not among __slots__, so the assignment of line 63
\* needs an instance __dict__.  `x or self.meta.get(...)` reads self.meta only
\* when x is false.
InitAttributes(h0, w, cls, frozen, auto_cast, strict_typing) ==
    IF ~HasInstanceDict(cls) THEN I(Discard(h0, w.h), "AttributeError", NoInst, {})
    ELSE IF ~(frozen /\ auto_cast /\ strict_typing) /\ MetaStatus(w.content) # "ok"
    THEN I(Discard(h0, w.h), MetaStatus(w.content), NoInst, {})
    ELSE I(w.h, "ok",
           [cls |-> cls, content |-> w.content, annotations |-> NoAnnotations,
            frozen |-> frozen \/ MetaGet(cls, w.content, "frozen"),
            auto_cast |-> auto_cast \/ MetaGet(cls, w.content, "auto_cast"),
            strict_typing |-> strict_typing \/ MetaGet(cls, w.content, "strict_typing"),
            fields |-> FieldsOfContent(w.content),
            original |-> EmptyContent, aliased |-> FALSE, was_frozen |-> FALSE],
           {})

\* lines 53-77 of Data.__init__, a being the outcome of the first loop
InitAdopted(h0, a, cls, kwargs, frozen, auto_cast, strict_typing) ==
    IF a.st # "ok" THEN I(Discard(h0, a.h), a.st, NoInst, {})
    ELSE InitAttributes(h0, KeywordsFrom(1, a.h, kwargs, a.content), cls,
                        frozen, auto_cast, strict_typing)

\* Data.__init__
DataInit(h, self, cls, value, kwargs, frozen, auto_cast, strict_typing) ==
    InitAdopted(h, AdoptFrom(1, h, value, self, EmptyContent), cls, kwargs,
                frozen, auto_cast, strict_typing)

\* instance_content of _Dataclass.__init__: the class attributes along the MRO
\* that pass the filter, then the keyword arguments
InstanceContent(cls, kwargs) ==
    [k \in Keys |-> IF kwargs[k].t # "absent" THEN kwargs[k] ELSE ClassAttr(cls, k)]

\* the end of _Dataclass.__init__: v is the outcome of __raise_typing_error__
\* on the instance ins
InitValidated(h0, v, ins) ==
    IF v.st # "ok" THEN I(Discard(h0, v.h), v.st, NoInst, v.keys)
    ELSE I(v.h, "ok", ins, {})

\* lines 28-33 of _Dataclass.__init__: d is the outcome of Data.__init__
InitAnnotated(h0, insts, self, cls, d) ==
    IF d.st # "ok" THEN d
    ELSE InitValidated(h0,
            RaiseTypingError(d.h,
                [insts EXCEPT ![self] = [d.ins EXCEPT !.annotations = ClassAnnotations(cls)]],
                self),
            [d.ins EXCEPT !.annotations = ClassAnnotations(cls)])

\* _Dataclass.__init__
DataclassInit(h, insts, self, cls, kwargs) ==
    InitAnnotated(h, insts, self, cls,
                  DataInit(h, self, cls, InstanceContent(cls, kwargs), EmptyContent,
                           FALSE, TRUE, TRUE))

\* cls(**kwargs) for any class: a factory class runs _Dataclass.__init__, Data and
\* FrozenData run Data.__init__ with their signature defaults (FrozenData passes
\* frozen=True)
Instantiate(h, insts, self, cls, kwargs) ==
    IF cls \in FactoryClasses THEN DataclassInit(h, insts, self, cls, kwargs)
    ELSE DataInit(h, self, cls, EmptyContent, kwargs, cls = "FrozenData", TRUE, TRUE)

\* cls(data) with one positional argument (Data.from_dict): _Dataclass.__init__
\* takes keywords only
InstantiateFrom(h, insts, self, cls, data) ==
    IF cls \in FactoryClasses THEN I(h, "TypeError", NoInst, {})
    ELSE DataInit(h, self, cls, data, EmptyContent, cls = "FrozenData", TRUE, TRUE)

(***************************************************************************)
(* Mutation.  Each operator returns the heap and the target's record after *)
(* the call, how the call ended, what it returned and, for a TypeError of  *)
(* validation, the keys it names.                                          *)
(***************************************************************************)
W(h, ins, st, a, keys) == [h |-> h, ins |-> ins, st |-> st, a |-> a, keys |-> keys]

\* the value __setitem__ goes on with after the auto_cast step
CastOnWrite(ins, k, a) ==
    IF ins.auto_cast /\ ins.annotations[k] # "none" /\ Cast(ins.annotations[k], a).ok
    THEN Cast(ins.annotations[k], a).a
    ELSE a

\* the three storing branches of Data.__setitem__ (lines 428-433), v already cast
StoreItem(h, ins, k, v) ==
    IF v.t = "fld"
    THEN W(h, WithContent([ins EXCEPT !.fields[k] = v], [ins.content EXCEPT ![k] = v]),
           "ok", Val(NoneV), {})
    ELSE IF ins.content[k].t = "absent" THEN W(h, ins, "KeyError", Val(NoneV), {})
    ELSE IF ins.content[k].t = "fld" /\ h[ins.content[k].f].kind # "ComputedField"
    THEN W([h EXCEPT ![ins.content[k].f].value = v.v], ins, "ok", Val(NoneV), {})
    ELSE W(h, WithContent(ins, [ins.content EXCEPT ![k] = v]), "ok", Val(NoneV), {})

\* a call that ends with self.__raise_typing_error__(): v is its outcome, ins
\* the instance as the call left it, a what the call returns
Validated(v, ins, a) ==
    IF v.st # "ok" THEN W(v.h, ins, v.st, Val(NoneV), v.keys)
    ELSE W(v.h, ins, "ok", a, {})

\* line 434 of Data.__setitem__, s being the outcome of the store
StoredThenValidated(s, insts, i) ==
    IF s.st # "ok" THEN s
    ELSE Validated(RaiseTypingError(s.h, [insts EXCEPT ![i] = s.ins], i), s.ins, Val(NoneV))

\* Data.__setitem__ (Data.__setattr__ forwards to it); FrozenData overrides both
SetItemOf(h, insts, i, k, a) ==
    IF insts[i].cls = "FrozenData" THEN W(h, insts[i], "AttributeError", Val(NoneV), {})
    ELSE IF insts[i].frozen THEN W(h, insts[i], "ok", Val(NoneV), {})
    ELSE StoredThenValidated(StoreItem(h, insts[i], k, CastOnWrite(insts[i], k, a)), insts, i)

\* Data.__delitem__
DelItemOf(h, insts, i, k) ==
    LET ins == insts[i]
    IN IF ins.cls = "FrozenData" \/ ins.frozen THEN W(h, ins, "ok", Val(NoneV), {})
       ELSE IF ins.content[k].t = "absent"
       THEN W(h, [ins EXCEPT !.fields[k] = Absent], "KeyError", Val(NoneV), {})
       ELSE W(h, WithContent([ins EXCEPT !.fields[k] = Absent],
                             [ins.content EXCEPT ![k] = Absent]),
              "ok", Val(NoneV), {})

\* line 371 of Data.pop: d is the resolved default, ins the instance after the
\* registry entry has gone
PopWith(d, ins, k) ==
    IF d.st # "ok" THEN W(d.h, ins, d.st, Val(NoneV), {})
    ELSE IF ins.content[k].t = "absent" THEN W(d.h, ins, "ok", d.a, {})
    ELSE W(d.h, WithContent(ins, [ins.content EXCEPT ![k] = Absent]), "ok", ins.content[k], {})

\* Data.pop
PopOf(h, insts, i, k, default) ==
    LET ins == insts[i]
    IN IF ins.cls = "FrozenData" THEN W(h, ins, "ok", Val(NoneV), {})
       ELSE IF ins.frozen
       THEN W(h, ins, "ok", IF ins.content[k].t = "absent" THEN default ELSE ins.content[k], {})
       ELSE PopWith(ResolveValue(h, insts, default),
                    IF ins.content[k].t = "fld" THEN [ins EXCEPT !.fields[k] = Absent] ELSE ins,
                    k)

\* clear() without the test of the frozen flag
ClearUnguarded(h, insts, i) ==
    W(h, WithContent([insts[i] EXCEPT !.fields = EmptyContent], EmptyContent),
      "ok", Val(NoneV), {})

\* Data.clear
ClearOf(h, insts, i) ==
    LET ins == insts[i]
    IN IF ins.cls = "FrozenData" \/ ins.frozen THEN W(h, ins, "ok", Val(NoneV), {})
       ELSE W(h, WithContent([ins EXCEPT !.fields = EmptyContent], EmptyContent),
              "ok", Val(NoneV), {})

\* lines 352-353 of Data.setdefault: g is the outcome of self.__getitem__(key)
SetDefaultRead(g, insts, i, ins) ==
    IF g.st # "ok" THEN W(g.h, ins, g.st, Val(NoneV), {})
    ELSE Validated(RaiseTypingError(g.h, [insts EXCEPT ![i] = ins], i), ins, g.a)

\* lines 351-353 of Data.setdefault: s is the outcome of what went before
SetDefaultStored(s, insts, i, k) ==
    IF s.st # "ok" THEN s
    ELSE SetDefaultRead(GetItemOf(s.h, [insts EXCEPT ![i] = s.ins], i, k), insts, i, s.ins)

\* lines 346-350 of Data.setdefault for a missing key: d is the resolved default,
\* ins1 the instance after the registry has taken a Field default
SetDefaultMissing(d, insts, i, ins1, k, default) ==
    IF d.st # "ok" THEN W(d.h, ins1, d.st, Val(NoneV), {})
    ELSE SetItemOf(d.h, [insts EXCEPT ![i] = ins1], i, k, default)

\* Data.setdefault
SetDefaultOf(h, insts, i, k, default) ==
    LET ins == insts[i]
    IN IF ins.cls = "FrozenData" THEN W(h, ins, "ok", Val(NoneV), {})
       ELSE IF ins.frozen
       THEN W(h, ins, "ok", IF ins.content[k].t = "absent" THEN default ELSE ins.content[k], {})
       ELSE SetDefaultStored(
                IF ins.content[k].t = "absent"
                THEN SetDefaultMissing(ResolveValue(h, insts, default), insts, i,
                                       IF default.t = "fld"
                                       THEN [ins EXCEPT !.fields[k] = default] ELSE ins,
                                       k, default)
                ELSE W(h, ins, "ok", Val(NoneV), {}),
                insts, i, k)

RECURSIVE UpdateFrom(_, _, _, _, _)
RECURSIVE UpdateStep(_, _, _, _, _)

\* one round of the loop of Data.update, s being the outcome of __setitem__
UpdateStep(idx, s, insts, i, data) ==
    IF s.st # "ok" THEN s
    ELSE UpdateFrom(idx + 1, s.h, [insts EXCEPT ![i] = s.ins], i, data)

\* the loop of Data.update over the items of the argument, from position idx
UpdateFrom(idx, h, insts, i, data) ==
    IF idx > Len(KeySeq) THEN W(h, insts[i], "ok", Val(NoneV), {})
    ELSE IF data[KeySeq[idx]].t = "absent" THEN UpdateFrom(idx + 1, h, insts, i, data)
    ELSE UpdateStep(idx, SetItemOf(h, insts, i, KeySeq[idx], data[KeySeq[idx]]),
                    insts, i, data)

\* line 378 of Data.update, u being the outcome of the loop
UpdatedThenValidated(u, insts, i) ==
    IF u.st # "ok" THEN u
    ELSE Validated(RaiseTypingError(u.h, [insts EXCEPT ![i] = u.ins], i), u.ins, Val(NoneV))

\* Data.update
UpdateOf(h, insts, i, data) ==
    IF insts[i].cls = "FrozenData" \/ insts[i].frozen
    THEN W(h, insts[i], "ok", Val(NoneV), {})
    ELSE UpdatedThenValidated(UpdateFrom(1, h, insts, i, data), insts, i)

\* Data.__enter__
EnterOf(ins) ==
    IF ins.cls = "FrozenData" THEN ins
    ELSE [ins EXCEPT !.original = ins.content, !.aliased = FALSE,
                     !.was_frozen = ins.frozen, !.frozen = FALSE]

\* Data.__exit__; raised is any(args).  The content attribute is rebound to the
\* __original__ dict itself.
ExitOf(ins, raised) ==
    IF ins.cls = "FrozenData" THEN ins
    ELSE IF raised
    THEN [ins EXCEPT !.content = ins.original, !.aliased = TRUE, !.frozen = ins.was_frozen]
    ELSE [ins EXCEPT !.frozen = ins.was_frozen]

\* Data.__link_fields__ (run by the fields property)
LinkFieldsHeap(h, insts, i) ==
    [f \in FieldIds |->
        IF \E k \in Keys : insts[i].content[k] = Fld(f)
        THEN [h[f] EXCEPT !.data = i] ELSE h[f]]

M(h, st, m) == [h |-> h, st |-> st, m |-> m]

RECURSIVE ContentFrom(_, _, _, _, _)
RECURSIVE ContentStep(_, _, _, _, _)

\* one entry of the dict of Data.get_content, r being the resolved value
ContentStep(idx, r, insts, i, acc) ==
    IF r.st # "ok" THEN M(r.h, r.st, EmptyContent)
    ELSE ContentFrom(idx + 1, r.h, insts, i, [acc EXCEPT ![KeySeq[idx]] = r.a])

\* the comprehension of Data.get_content from position idx of the content
ContentFrom(idx, h, insts, i, acc) ==
    IF idx > Len(KeySeq) THEN M(h, "ok", acc)
    ELSE IF insts[i].content[KeySeq[idx]].t = "absent"
    THEN ContentFrom(idx + 1, h, insts, i, acc)
    ELSE ContentStep(idx, GetItemOf(h, insts, i, KeySeq[idx]), insts, i, acc)

\* Data.get_content
GetContent(h, insts, i) == ContentFrom(1, h, insts, i, EmptyContent)

(***************************************************************************)
(* State.                                                                  *)
(*   heap    the Field objects                                             *)
(*   inst    the container instances                                       *)
(*   last    the last call: what was called on what, how it ended, what it *)
(*           returned                                                      *)
(*   pre     the target of the last call as it was before the call         *)
(*   scopes  per instance, the with-blocks the caller has open, innermost  *)
(*           last, each with what the caller saw when it entered           *)
(*   closed  the with-block the last call left, if it was an exit          *)
(*   ops     the number of calls made                                      *)
(***************************************************************************)
VARIABLES heap, inst, last, pre, scopes, closed, ops

vars == <<heap, inst, last, pre, scopes, closed, ops>>

\* what reading every key of instance i by item access gives (a read that raises
\* shows as the name of the exception)
Seen(r) == IF r.st = "ok" THEN r.a ELSE Val(ObjV(r.st))

ViewOf(h, insts, i) ==
    [k \in Keys |->
        IF insts[i].content[k].t = "absent" THEN Absent
        ELSE Seen(GetItemOf(h, insts, i, k))]

\* the flag arguments of a constructor call: each is "True", "False" or "unset"
NoFlags == [frozen |-> "unset", auto_cast |-> "unset", strict_typing |-> "unset"]

NoPre == [content |-> EmptyContent, view |-> EmptyContent, frozen |-> FALSE]

PreOf(i) == [content |-> inst[i].content, view |-> ViewOf(heap, inst, i), frozen |-> inst[i].frozen]

Last(op, i, k, arg, st, a, keys, n) ==
    [op |-> op, i |-> i, k |-> k, arg |-> arg, st |-> st, a |-> a, keys |-> keys,
     n |-> n, cls |-> "none", j |-> 0, raised |-> FALSE, m |-> EmptyContent,
     flags |-> NoFlags]

NoInsts == [i \in InstIds |-> NoInst]

NoScopes == [i \in InstIds |-> <<>>]

NoScope == [view |-> EmptyContent, frozen |-> FALSE]

Init ==
    /\ heap = ClassHeap
    /\ inst = NoInsts
    /\ last = Last("none", 0, "none", Absent, "ok", Val(NoneV), {}, 0)
    /\ pre = NoPre
    /\ scopes = NoScopes
    /\ closed = NoScope
    /\ ops = 0

\* the lowest unused instance id
FreshInst(i) == ~Live(inst, i) /\ \A j \in InstIds : ~Live(inst, j) => i <= j

\* a keyword-argument mapping with one entry
Kw1(k, a) == [x \in Keys |-> IF x = k THEN a ELSE Absent]

\* what a constructor call leaves, c being its outcome
Constructed(i, cls, kwargs, c) ==
    /\ c.st # "full"
    /\ heap' = c.h
    /\ inst' = [inst EXCEPT ![i] = c.ins]
    /\ last' = [Last("construct", i, "none", Absent, c.st, Val(NoneV), c.keys, 0)
                  EXCEPT !.cls = cls, !.m = kwargs]

\* cls(**kwargs)
Construct(cls, kwargs) ==
    \E i \in InstIds :
        /\ FreshInst(i)
        /\ Constructed(i, cls, kwargs, Instantiate(heap, inst, i, cls, kwargs))
        /\ pre' = NoPre
        /\ UNCHANGED scopes
        /\ closed' = NoScope
        /\ ops' = ops + 1

\* Data.to_dict: the resolved content, or only its keys when frozen (each key
\* then shows as None)
ToDictOf(h, insts, i) ==
    IF insts[i].frozen
    THEN M(GetContent(h, insts, i).h, GetContent(h, insts, i).st,
           [k \in Keys |-> IF GetContent(h, insts, i).m[k].t = "absent" THEN Absent
                           ELSE Val(NoneV)])
    ELSE GetContent(h, insts, i)

\* what from_dict(...).to_dict() leaves: c is the outcome of the constructor, g
\* that of to_dict
ExportedDict(i, cls, c, g) ==
    /\ heap' = g.h
    /\ inst' = [inst EXCEPT ![i] = c.ins]
    /\ last' = [Last("from_dict", i, "none", Absent, g.st, Val(NoneV), {}, 0)
                  EXCEPT !.cls = cls, !.m = g.m]

Exported(i, cls, c) ==
    /\ c.st # "full"
    /\ IF c.st = "ok"
       THEN ExportedDict(i, cls, c, ToDictOf(c.h, [inst EXCEPT ![i] = c.ins], i))
       ELSE ExportedDict(i, cls, c, M(c.h, c.st, EmptyContent))

\* cls.from_dict(data).to_dict()
FromDict(cls, data) ==
    \E i \in InstIds :
        /\ FreshInst(i)
        /\ Exported(i, cls, InstantiateFrom(heap, inst, i, cls, data))
        /\ pre' = [NoPre EXCEPT !.content = data]
        /\ UNCHANGED scopes
        /\ closed' = NoScope
        /\ ops' = ops + 1

\* the common shape of a mutating call on a live instance
Mutate(op, i, k, arg, w) ==
    /\ heap' = w.h
    /\ inst' = [inst EXCEPT ![i] = w.ins]
    /\ last' = Last(op, i, k, arg, w.st, w.a, w.keys, 0)
    /\ pre' = PreOf(i)
    /\ UNCHANGED scopes
    /\ closed' = NoScope
    /\ ops' = ops + 1

\* c[k] = v and c.k = v (Data.__setattr__ only forwards to __setitem__)
SetItem(i, k, a) ==
    /\ Live(inst, i)
    /\ Mutate("setitem", i, k, a, SetItemOf(heap, inst, i, k, a))

\* a Field the call did not store is dropped with the caller's reference
Unreferenced(n, w) ==
    IF \E x \in Keys : w.ins.content[x] = Fld(n) \/ w.ins.fields[x] = Fld(n) THEN w
    ELSE [w EXCEPT !.h = [w.h EXCEPT ![n] = FreeF]]

\* c[k] = <a Field or ComputedField the caller has just created>
SetItemField(i, k, fr) ==
    /\ Live(inst, i)
    /\ HasFree(heap)
    /\ Mutate("setitem", i, k, Fld(LowestFree(heap)),
              Unreferenced(LowestFree(heap),
                           SetItemOf([heap EXCEPT ![LowestFree(heap)] = fr], inst, i, k,
                                     Fld(LowestFree(heap)))))

\* del c[k]
DelItem(i, k) ==
    /\ Live(inst, i)
    /\ Mutate("delitem", i, k, Absent, DelItemOf(heap, inst, i, k))

\* c.pop(k, default)
Pop(i, k, default) ==
    /\ Live(inst, i)
    /\ Mutate("pop", i, k, default, PopOf(heap, inst, i, k, default))

\* c.setdefault(k, default)
SetDefault(i, k, default) ==
    /\ Live(inst, i)
    /\ Mutate("setdefault", i, k, default, SetDefaultOf(heap, inst, i, k, default))

\* c.update({k: v})
Update(i, k, a) ==
    /\ Live(inst, i)
    /\ Mutate("update", i, k, a, UpdateOf(heap, inst, i, Kw1(k, a)))

\* c.clear()
Clear(i) ==
    /\ Live(inst, i)
    /\ Mutate("clear", i, "none", Absent, ClearOf(heap, inst, i))

\* the caller enters `with c:`
Enter(i) ==
    /\ Live(inst, i)
    /\ Len(scopes[i]) < MaxDepth
    /\ inst' = [inst EXCEPT ![i] = EnterOf(inst[i])]
    /\ scopes' = [scopes EXCEPT ![i] = Append(@, [view |-> ViewOf(heap, inst, i),
                                                  frozen |-> inst[i].frozen])]
    /\ last' = Last("enter", i, "none", Absent, "ok", Val(NoneV), {}, 0)
    /\ pre' = PreOf(i)
    /\ closed' = NoScope
    /\ UNCHANGED heap
    /\ ops' = ops + 1

\* the caller leaves the innermost `with c:` block, normally or by an exception
Exit(i, raised) ==
    /\ Live(inst, i)
    /\ Len(scopes[i]) > 0
    /\ inst' = [inst EXCEPT ![i] = ExitOf(inst[i], raised)]
    /\ scopes' = [scopes EXCEPT ![i] = SubSeq(@, 1, Len(@) - 1)]
    /\ last' = [Last("exit", i, "none", Absent, "ok", Val(NoneV), {}, 0)
                  EXCEPT !.raised = raised]
    /\ pre' = PreOf(i)
    /\ closed' = scopes[i][Len(scopes[i])]
    /\ UNCHANGED heap
    /\ ops' = ops + 1

\* what copy() leaves, c being the outcome of type(self)(**content)
Copied(i, j, c) ==
    /\ c.st # "full"
    /\ heap' = c.h
    /\ inst' = [inst EXCEPT ![j] = c.ins]
    /\ last' = [Last("copy", i, "none", Absent, c.st, Val(NoneV), c.keys, 0) EXCEPT !.j = j]

\* c.copy()
Copy(i) ==
    /\ Live(inst, i)
    /\ \E j \in InstIds :
        /\ FreshInst(j)
        /\ Copied(i, j, Instantiate(heap, inst, j, inst[i].cls, inst[i].content))
    /\ pre' = PreOf(i)
    /\ UNCHANGED scopes
    /\ closed' = NoScope
    /\ ops' = ops + 1

\* c.fields
LinkFields(i) ==
    /\ Live(inst, i)
    /\ heap' = LinkFieldsHeap(heap, inst, i)
    /\ inst' = [inst EXCEPT ![i].fields = FieldsOfContent(inst[i].content)]
    /\ last' = Last("fields", i, "none", Absent, "ok", Val(NoneV), {}, 0)
    /\ pre' = PreOf(i)
    /\ UNCHANGED scopes
    /\ closed' = NoScope
    /\ ops' = ops + 1

\* the common shape of a reading call: only a ComputedField's guard can change
Observe(op, i, k, arg, r) ==
    /\ heap' = r.h
    /\ last' = Last(op, i, k, arg, r.st, r.a, {}, r.n)
    /\ pre' = PreOf(i)
    /\ closed' = NoScope
    /\ UNCHANGED <<inst, scopes, ops>>

\* c[k]
ReadItem(i, k) ==
    /\ Live(inst, i)
    /\ Observe("getitem", i, k, Absent, GetItemOf(heap, inst, i, k))

\* c.k
ReadAttr(i, k) ==
    /\ Live(inst, i)
    /\ Observe("getattr", i, k, Absent, GetAttrOf(heap, inst, i, k))

\* c.get(k, default)
Get(i, k, default) ==
    /\ Live(inst, i)
    /\ Observe("get", i, k, default, GetOf(heap, inst, i, k, default))

\* what validate_data leaves, g being the outcome of __get_incorrect_typing__
Reported(i, g) ==
    /\ heap' = g.h
    /\ last' = Last("validate_data", i, "none", Absent, g.st, Val(NoneV), g.keys, 0)

\* validate_data(c)
ValidateData(i) ==
    /\ Live(inst, i)
    /\ Reported(i, GetIncorrectTyping(heap, inst, i))
    /\ pre' = PreOf(i)
    /\ closed' = NoScope
    /\ UNCHANGED <<inst, scopes, ops>>

(***************************************************************************)
(* The inputs explored.                                                    *)
(***************************************************************************)
S42 == StrV(<<"4", "2">>)

Sx == StrV(<<"x">>)

PlainArgs == {Val(IntV(0)), Val(IntV(7)), Val(S42), Val(Sx)}

WriteKeys == {"age", "note", "slot", "total", "extra"}

\* the Field objects a caller creates: field(default=1), field(required=True),
\* computed_field(lambda self: 1)
FieldArgs ==
    {NewField(IntV(1), "always", FALSE, FALSE),
     NewField(NoneV, "always", TRUE, FALSE),
     NewComputed("const", FALSE)}

KwArgs ==
    {EmptyContent, Kw1("day", Val(IntV(31))), Kw1("age", Val(S42)), Kw1("age", Val(IntV(7)))}

DictArgs == {EmptyContent, Kw1("age", Val(IntV(7))), Kw1("extra", Val(Sx))}

Next ==
    \/ \E cls \in Classes, kw \in KwArgs : ops < MaxOps /\ Construct(cls, kw)
    \/ \E cls \in Classes, d \in DictArgs : ops < MaxOps /\ FromDict(cls, d)
    \/ \E i \in InstIds, k \in WriteKeys, a \in PlainArgs : ops < MaxOps /\ SetItem(i, k, a)
    \/ \E i \in InstIds, k \in WriteKeys, fr \in FieldArgs :
          ops < MaxOps /\ SetItemField(i, k, fr)
    \/ \E i \in InstIds, k \in WriteKeys : ops < MaxOps /\ DelItem(i, k)
    \/ \E i \in InstIds, k \in WriteKeys : ops < MaxOps /\ Pop(i, k, Val(IntV(7)))
    \/ \E i \in InstIds, k \in WriteKeys : ops < MaxOps /\ SetDefault(i, k, Val(IntV(7)))
    \/ \E i \in InstIds, k \in WriteKeys, a \in PlainArgs : ops < MaxOps /\ Update(i, k, a)
    \/ \E i \in InstIds : ops < MaxOps /\ Clear(i)
    \/ \E i \in InstIds : ops < MaxOps /\ Enter(i)
    \/ \E i \in InstIds, raised \in BOOLEAN : ops < MaxOps /\ Exit(i, raised)
    \/ \E i \in InstIds : ops < MaxOps /\ Copy(i)
    \/ \E i \in InstIds : ops < MaxOps /\ LinkFields(i)
    \/ \E i \in InstIds, k \in WriteKeys : ops < MaxOps /\ ReadItem(i, k)
    \/ \E i \in InstIds, k \in WriteKeys : ops < MaxOps /\ ReadAttr(i, k)
    \/ \E i \in InstIds, k \in WriteKeys : ops < MaxOps /\ Get(i, k, Val(IntV(7)))
    \/ \E i \in InstIds : ops < MaxOps /\ ValidateData(i)

Spec == Init /\ [][Next]_vars

(***************************************************************************)
(* Scoped mutation and freezing: one instance of the frozen-configured     *)
(* factory class, or of the plain one, and every mutation entry point on   *)
(* it, inside and outside `with` blocks.                                   *)
(***************************************************************************)
MaxScopeOps == 4

\* the outcome of cls(**kwargs) as the first call of a program
Built(cls, kwargs) == Instantiate(ClassHeap, NoInsts, 1, cls, kwargs)

\* the state once cls(**kwargs) has returned instance 1
InitWith(cls, kwargs) ==
    /\ Built(cls, kwargs).st = "ok"
    /\ heap = Built(cls, kwargs).h
    /\ inst = [NoInsts EXCEPT ![1] = Built(cls, kwargs).ins]
    /\ last = [Last("construct", 1, "none", Absent, "ok", Val(NoneV), {}, 0)
                 EXCEPT !.cls = cls, !.m = kwargs]
    /\ pre = NoPre
    /\ scopes = NoScopes
    /\ closed = NoScope
    /\ ops = 0

ScopeKeys == {"age", "slot", "extra"}

InitScope == InitWith("Vault", EmptyContent) \/ InitWith("Rec", EmptyContent)

NextScope ==
    \/ \E k \in ScopeKeys : ops < MaxScopeOps /\ SetItem(1, k, Val(IntV(7)))
    \/ \E k \in ScopeKeys :
          ops < MaxScopeOps /\ SetItemField(1, k, NewField(IntV(1), "always", FALSE, FALSE))
    \/ \E k \in ScopeKeys : ops < MaxScopeOps /\ DelItem(1, k)
    \/ \E k \in ScopeKeys : ops < MaxScopeOps /\ Pop(1, k, Val(IntV(7)))
    \/ \E k \in ScopeKeys : ops < MaxScopeOps /\ SetDefault(1, k, Val(IntV(7)))
    \/ \E k \in ScopeKeys : ops < MaxScopeOps /\ Update(1, k, Val(IntV(7)))
    \/ ops < MaxScopeOps /\ Clear(1)
    \/ ops < MaxScopeOps /\ Enter(1)
    \/ \E raised \in BOOLEAN : ops < MaxScopeOps /\ Exit(1, raised)

SpecScope == InitScope /\ [][NextScope]_vars

(***************************************************************************)
(* Validation: one instance of the plain factory class, writes of values   *)
(* and Fields that pass or fail the annotations, and validate_data.        *)
(***************************************************************************)
MaxValidOps == 3

ValidKeys == {"age", "slot", "name"}

ValidArgs == {Val(IntV(0)), Val(IntV(7)), Val(Sx)}

\* field(default=1), field(required=True), computed_field(lambda self: 1) and
\* field(default=1, validator=lambda v: isinstance(v, int))
ValidFields == FieldArgs \cup {NewField(IntV(1), "is_int", FALSE, FALSE)}

InitValid == InitWith("Rec", EmptyContent)

NextValid ==
    \/ \E k \in ValidKeys, a \in ValidArgs : ops < MaxValidOps /\ SetItem(1, k, a)
    \/ \E k \in ValidKeys, a \in ValidArgs : ops < MaxValidOps /\ Update(1, k, a)
    \/ \E k \in ValidKeys, fr \in ValidFields : ops < MaxValidOps /\ SetItemField(1, k, fr)
    \/ \E k \in ValidKeys : ops < MaxValidOps /\ DelItem(1, k)
    \/ ValidateData(1)

SpecValid == InitValid /\ [][NextValid]_vars

(***************************************************************************)
(* Computed fields: one instance of the plain factory class, whose         *)
(* ComputedField under "total" reads self["total"].                        *)
(***************************************************************************)
MaxComputedOps == 3

ComputedKeys == {"total", "slot"}

ComputedArgs == {NewComputed("self_item", FALSE), NewComputed("const", FALSE)}

InitComputed == InitWith("Rec", EmptyContent)

NextComputed ==
    \/ ops < MaxComputedOps /\ LinkFields(1)
    \/ \E k \in ComputedKeys, fr \in ComputedArgs :
          ops < MaxComputedOps /\ SetItemField(1, k, fr)
    \/ \E k \in ComputedKeys : ops < MaxComputedOps /\ SetItem(1, k, Val(IntV(7)))
    \/ \E k \in ComputedKeys : ReadItem(1, k)
    \/ \E k \in ComputedKeys : ReadAttr(1, k)
    \/ \E k \in ComputedKeys : Get(1, k, Val(IntV(7)))

SpecComputed == InitComputed /\ [][NextComputed]_vars

(***************************************************************************)
(* Plain subclasses of Data, built by Data.__init__ itself with its flag   *)
(* arguments, next to factory instances built with a "__meta_config__"     *)
(* keyword; writes and snapshots of the one container built.               *)
(***************************************************************************)
MaxPlainOps == 3
MaxPlainNew == 1

\* the value of a parameter of Data.__init__: the argument when one is passed,
\* else the default of the signature
ArgOr(x, default) == IF x = "unset" THEN default ELSE x = "True"

\* cls(value, frozen=..., auto_cast=..., strict_typing=..., **kwargs) for a
\* plain subclass
InstantiatePlain(h, self, cls, value, kwargs, flags) ==
    DataInit(h, self, cls, value, kwargs, ArgOr(flags.frozen, FALSE),
             ArgOr(flags.auto_cast, TRUE), ArgOr(flags.strict_typing, TRUE))

PlainConstructed(i, cls, value, kwargs, flags, c) ==
    /\ c.st # "full"
    /\ heap' = c.h
    /\ inst' = [inst EXCEPT ![i] = c.ins]
    /\ last' = [Last("construct", i, "none", Absent, c.st, Val(NoneV), c.keys, 0)
                  EXCEPT !.cls = cls, !.m = kwargs, !.flags = flags]
    /\ pre' = [NoPre EXCEPT !.content = value]
    /\ UNCHANGED scopes
    /\ closed' = NoScope
    /\ ops' = ops + 1

ConstructPlain(cls, value, kwargs, flags) ==
    \E i \in InstIds :
        /\ FreshInst(i)
        /\ PlainConstructed(i, cls, value, kwargs, flags,
                            InstantiatePlain(heap, i, cls, value, kwargs, flags))

\* Data.snapshot, d being what self.to_dict() gave: FrozenData(d).  The
\* frozenset a frozen container exports has no items(); an empty one is
\* replaced by {} (`value or {}`).  Line 278 runs only once the constructor
\* has returned.
SnapshotOf(insts, i, j, d) ==
    IF d.st # "ok" THEN I(d.h, d.st, NoInst, {})
    ELSE IF insts[i].frozen /\ d.m # EmptyContent THEN I(d.h, "AttributeError", NoInst, {})
    ELSE InstantiateFrom(d.h, insts, j, "FrozenData",
                         IF insts[i].frozen THEN EmptyContent ELSE d.m)

Snapshotted(i, j, c) ==
    /\ c.st # "full"
    /\ heap' = c.h
    /\ inst' = [inst EXCEPT ![j] = c.ins]
    /\ last' = [Last("snapshot", i, "none", Absent, c.st, Val(NoneV), {}, 0)
                  EXCEPT !.cls = "FrozenData", !.j = j]
    /\ pre' = PreOf(i)
    /\ UNCHANGED scopes
    /\ closed' = NoScope
    /\ ops' = ops + 1

\* c.snapshot()
Snapshot(i) ==
    \E j \in InstIds :
        /\ Live(inst, i)
        /\ FreshInst(j)
        /\ Snapshotted(i, j, SnapshotOf(inst, i, j, ToDictOf(heap, inst, i)))

PlainKeys == {"age", "slot"}

\* source mappings: {}, {"age": 1}, {"__meta_config__": {"frozen": False}},
\* {"__meta_config__": {"frozen": True}}
PlainDicts ==
    {EmptyContent, Kw1("age", Val(IntV(1))),
     Kw1("__meta_config__", Val(ConfigV("frozen", FALSE))),
     Kw1("__meta_config__", Val(ConfigV("frozen", TRUE)))}

PlainKwArgs == {EmptyContent, Kw1("slot", Val(IntV(7)))}

\* no flag passed, frozen=True, frozen=False, auto_cast=False, strict_typing=False
FlagArgs ==
    {NoFlags, [NoFlags EXCEPT !.frozen = "True"], [NoFlags EXCEPT !.frozen = "False"],
     [NoFlags EXCEPT !.auto_cast = "False"], [NoFlags EXCEPT !.strict_typing = "False"]}

\* the number of containers built so far
LiveCount == Cardinality({i \in InstIds : Live(inst, i)})

NextPlain ==
    \/ \E cls \in PlainClasses, d \in PlainDicts, kw \in PlainKwArgs, fl \in FlagArgs :
          ops < MaxPlainOps /\ LiveCount < MaxPlainNew /\ ConstructPlain(cls, d, kw, fl)
    \/ \E cls \in {"Rec", "Vault"}, d \in PlainDicts :
          ops < MaxPlainOps /\ LiveCount < MaxPlainNew /\ Construct(cls, d)
    \/ \E k \in PlainKeys : ops < MaxPlainOps /\ SetItem(1, k, Val(IntV(7)))
    \/ \E k \in PlainKeys, fr \in FieldArgs : ops < MaxPlainOps /\ SetItemField(1, k, fr)
    \/ \E k \in PlainKeys : ops < MaxPlainOps /\ ReadItem(1, k)
    \/ ops < MaxPlainOps /\ Snapshot(1)

SpecPlain == Init /\ [][NextPlain]_vars

(***************************************************************************)
(* Properties.                                                             *)
(***************************************************************************)
MutOps == {"setitem", "delitem", "pop", "setdefault", "update", "clear"}

WriteOps == {"setitem", "setdefault", "update"}

C2_WriteThenRead ==
    (/\ last.op = "setitem"
     /\ last.arg.t = "val"
     /\ ~pre.frozen
     /\ inst[last.i].annotations[last.k] = "none"
     /\ pre.content[last.k].t # "fld") =>
        /\ last.st = "ok"
        /\ GetItemOf(heap, inst, last.i, last.k).st = "ok"
        /\ GetItemOf(heap, inst, last.i, last.k).a = last.arg

\* a key of the instance whose slot holds a Field that is no ComputedField
HoldsField(h, ins, k) == ins.content[k].t = "fld" /\ h[ins.content[k].f].kind # "ComputedField"

\* C3, as stated: when copy() of a container holding a non-computed Field has
\* returned, every key of the copy reads what it reads on the original, and
\* the copy's Field is another object than the original's.
C3_CopyEqualIndependent ==
    (/\ last.op = "copy"
     /\ last.st = "ok"
     /\ \E k \in Keys : HoldsField(heap, inst[last.i], k)) =>
        /\ ViewOf(heap, inst, last.j) = ViewOf(heap, inst, last.i)
        /\ \A k \in Keys :
              HoldsField(heap, inst[last.i], k) =>
                 /\ inst[last.j].content[k].t = "fld"
                 /\ inst[last.j].content[k] # inst[last.i].content[k]

\* C4, as stated: Data.from_dict(d).to_dict() returns, and returns d.
C4_RoundTrip ==
    (last.op = "from_dict" /\ last.cls = "Data") =>
        (last.st = "ok" /\ last.m = pre.content)

\* the keys of instance i that are annotated, present, and whose value fails
\* the annotation check
Mismatched(i) ==
    {k \in Keys :
        /\ inst[i].annotations[k] # "none"
        /\ inst[i].content[k].t # "absent"
        /\ ~CheckType(heap, inst, inst[i].content[k], inst[i].annotations[k]).ok}

C6_CastAtConstruction ==
    (/\ last.op = "construct"
     /\ last.cls \in FactoryClasses
     /\ ClassAnnotations(last.cls)["age"] = "int"
     /\ last.m["age"] = Val(S42)) =>
        /\ last.st = "ok"
        /\ inst[last.i].auto_cast
        /\ GetItemOf(heap, inst, last.i, "age").a = Val(IntV(42))

\* C7, as stated: building the Date class of src/test.py without day raises,
\* and building it with day completes, day then reading the value given.
C7_RequiredField ==
    (last.op = "construct" /\ last.cls = "Date") =>
        IF last.m["day"].t = "absent" THEN last.st # "ok"
        ELSE /\ last.st = "ok"
             /\ GetItemOf(heap, inst, last.i, "day").st = "ok"
             /\ GetItemOf(heap, inst, last.i, "day").a = last.m["day"]

\* C8, as stated: when a `with` block is left by an exception, the container
\* has the keys it had when the block was entered and every key reads what it
\* read then.
C8_RaisedScopeRollsBack ==
    (last.op = "exit" /\ last.raised) => ViewOf(heap, inst, last.i) = closed.view

\* C9, as stated: when the outermost `with` block on a container is left, the
\* frozen flag is what it was just before that block was entered.
C9_FrozenRestored ==
    (last.op = "exit" /\ scopes[last.i] = <<>>) => inst[last.i].frozen = closed.frozen

\* the slot read by the last call holds a ComputedField, linked to the
\* container, whose function reads that same slot of the container
ReadsItself ==
    /\ last.op \in {"getitem", "get"}
    /\ last.k = "total"
    /\ inst[last.i].content["total"].t = "fld"
    /\ heap[inst[last.i].content["total"].f].kind = "ComputedField"
    /\ heap[inst[last.i].content["total"].f].method = "self_item"
    /\ heap[inst[last.i].content["total"].f].data = last.i

\* C10: a read of a ComputedField whose function reads the same key of its own
\* container returns; the function is entered at most once, the nested read
\* giving None, which is what the function and so the read return.
C10_ReentrantReadReturnsNone ==
    ReadsItself => (last.st = "ok" /\ last.n <= 1 /\ last.a = Val(NoneV))

\* C10, its case: such a read during which the function was entered
C10_Witness == ReadsItself /\ last.n = 1 /\ ~heap[inst[1].content["total"].f].recursion

\* what the claims about reads expect of a Field that is no ComputedField: its
\* value unless that is None, else its default
ValueElseDefault(fr) == IF fr.value.t # "none" THEN fr.value ELSE fr.default

\* C11, as stated: for every key whose slot holds a Field that is no
\* ComputedField, item access, get and get_content give the Field's value,
\* false values such as 0 included, and its default only when the value is
\* None.
C11_FieldValueRead ==
    \A i \in InstIds, k \in Keys :
        (Live(inst, i) /\ HoldsField(heap, inst[i], k)) =>
            /\ GetItemOf(heap, inst, i, k).a = Val(ValueElseDefault(heap[inst[i].content[k].f]))
            /\ GetOf(heap, inst, i, k, Val(NoneV)).a
                 = Val(ValueElseDefault(heap[inst[i].content[k].f]))
            /\ GetContent(heap, inst, i).st = "ok" =>
                  GetContent(heap, inst, i).m[k]
                     = Val(ValueElseDefault(heap[inst[i].content[k].f]))

\* the classes whose class-level configuration has a "frozen" entry: data_factory
\* always passes frozen= to the metaclass, FSub passes it in its class statement
ClassDeclaresFrozen(cls) == cls \in FactoryClasses \cup {"FSub"}

\* the frozen flag by the stated order: the constructor argument when one is
\* passed, else the class-level entry, else the content's "__meta_config__"
\* entry, else False
FrozenByPrecedence(cls, flags, content) ==
    IF flags.frozen # "unset" THEN flags.frozen = "True"
    ELSE IF ClassDeclaresFrozen(cls) THEN ClassMetaFrozen(cls)
    ELSE /\ content["__meta_config__"].t = "val"
         /\ content["__meta_config__"].v = ConfigV("frozen", TRUE)

\* C12, as stated, for the frozen flag: a container that has just been built is
\* frozen exactly when the first of these sources that is present says so: the
\* constructor argument (an explicit False included), the class-level
\* configuration, the "__meta_config__" entry of its content; and it is not
\* frozen when none is present.
C12_FrozenResolvedByPrecedence ==
    (last.op = "construct" /\ last.st = "ok") =>
        inst[last.i].frozen
          = FrozenByPrecedence(last.cls, last.flags, inst[last.i].content)

\* C13, as stated: when a write on a container that is not frozen leaves a
\* registered Field (no ComputedField) that fails its validator or is required
\* and unset, the write raises TypeError and the error names that Field's key,
\* whatever strict_typing is and whether or not the container has annotations.
C13_FieldChecksAlwaysRaise ==
    (last.op \in WriteOps /\ ~pre.frozen) =>
        \A k \in BadFields(heap, inst[last.i]) :
            last.st = "TypeError" /\ k \in last.keys

\* C14, as stated, for a data_factory class: when the class declares a Field (no
\* ComputedField) under key k and the constructor is given a keyword for k, the
\* slot of k in the new instance holds a Field with the validator, default and
\* required setting of the declared one, and the keyword's value as its value.
C14_KeywordSetsFieldValue ==
    (last.op = "construct" /\ last.st = "ok" /\ last.cls \in FactoryClasses) =>
        \A k \in Keys :
            (/\ OwnAttr(last.cls, k).t = "fld"
             /\ ClassHeap[OwnAttr(last.cls, k).f].kind = "Field"
             /\ last.m[k].t = "val") =>
                /\ HoldsField(heap, inst[last.i], k)
                /\ heap[inst[last.i].content[k].f]
                     = [FieldCopy(ClassHeap[OwnAttr(last.cls, k).f])
                          EXCEPT !.value = last.m[k].v, !.data = last.i]

\* C15, as stated: the content keys of a data_factory instance that has just
\* been built are the attributes declared in the decorated class plus the
\* constructor keywords, and nothing else; no member of Data is among them.
C15_ContentKeysAreDeclared ==
    (last.op = "construct" /\ last.st = "ok" /\ last.cls \in FactoryClasses) =>
        {k \in Keys : inst[last.i].content[k].t # "absent"}
          = {k \in Keys : OwnAttr(last.cls, k).t # "absent" \/ last.m[k].t # "absent"}

\* what the function of the ComputedField f gives when it is applied to
\* container i with no evaluation of f in progress
AppliedTo(h, insts, f, i) ==
    EvalComputed([h EXCEPT ![f].data = i, ![f].recursion = FALSE], insts, f)

\* C16, as stated: a read c[k] of a key holding a ComputedField, classfield or
\* not, ends as the field's function ends when applied to c itself, and gives
\* what that function gives for c.
C16_ComputedReadsItsContainer ==
    \A f \in FieldIds :
        (/\ last.op = "getitem"
         /\ inst[last.i].content[last.k] = Fld(f)
         /\ heap[f].kind = "ComputedField") =>
            /\ last.st = AppliedTo(heap, inst, f, last.i).st
            /\ last.st = "ok" => last.a = AppliedTo(heap, inst, f, last.i).a

\* C17, as stated: c.snapshot() returns a FrozenData that reads, key by key,
\* what c read when the call was made.
C17_SnapshotEqualsSource ==
    last.op = "snapshot" =>
        /\ last.st = "ok"
        /\ inst[last.j].cls = "FrozenData"
        /\ ViewOf(heap, inst, last.j) = pre.view

\* C18, as stated: the field registry of every container has exactly the
\* content keys whose slot holds a Field, each with the Field object of that
\* slot.
C18_RegistryMatchesContent ==
    \A i \in InstIds :
        Live(inst, i) => inst[i].fields = FieldsOfContent(inst[i].content)

\* C19, as stated: between calls, when no evaluation of a ComputedField is in
\* progress, the re-entrancy guard of every ComputedField is off, whether its
\* last evaluation returned or raised.
C19_GuardOffAtRest ==
    \A f \in FieldIds : heap[f].kind = "ComputedField" => ~heap[f].recursion
====
